---- MODULE Spec2Model ----
(***************************************************************************)
(* The recording / transcription lifecycle controller of voice_to_text:    *)
(* VoiceRecorder (macos/voice_to_text.py, windows/voice_to_text_windows.py) *)
(* with its four threads: the hotkey-event thread (on_press / on_release),  *)
(* the audio callback of every running input stream, the background         *)
(* do_transcribe tasks, and the poll loop of main() (check_results).        *)
(*                                                                          *)
(* Every `with self.lock:` block is one atomic action; every unlocked       *)
(* statement that touches shared state is an action of its own, so the      *)
(* unlocked check-then-set of self.transcribing interleaves freely.         *)
(***************************************************************************)
EXTENDS Integers, Sequences, FiniteSets

VARIABLES
    platform,         \* which of the two controllers runs: "macos" | "windows"
    held,             \* the hotkey combo is physically down (HotkeyEvents)
    recording,        \* self.recording
    frames,           \* self.frames: the buffered blocks, each a sequence of samples
    stream,           \* self.stream: handle of the current stream, NoStream for None
    openStreams,      \* streams the audio subsystem is running (callbacks fire)
    session,          \* id of the capture session self.frames belongs to
    lock,             \* self.lock: "free" or the thread inside a `with self.lock` block
    recording_active, \* windows global recording_active
    transcribing,     \* self.transcribing (in-flight flag)
    pending,          \* self.pending_audio_queue (wait list)
    results,          \* self.result_queue
    tasks,            \* running do_transcribe threads
    hpc,              \* hotkey-event thread: position
    is_active,        \* on_press local is_active
    audio,            \* on_release local audio (stop_recording's return value)
    ta_seen,          \* transcribe_async: value read from self.transcribing, per caller
    ta_buf,           \* transcribe_async: audio_data argument, per caller
    ppc,              \* poll loop: position inside check_results
    cur,              \* check_results locals (status, result) with the buffer id
    nextId,           \* next session / buffer id
    startCues,        \* number of play_sound('start') emitted
    stopCues,         \* number of play_sound('stop') emitted
    start_ret,        \* the value the last start_recording call returned
    clipboard,        \* the system clipboard (pyperclip)
    audio_monitor,    \* self.audio_monitor: the AudioLevelMonitor's fields
    report,           \* the dict get_report() returned last
    quality,          \* the class get_quality_assessment() returned last
    last,             \* what check_results did with the result it dequeued
    check_ret,        \* the value the last check_results call returned
    saw,              \* history: recorder flags at the moment on_press looked
    holdStarts,       \* history: sessions started since the physical press
    begun,            \* history: sessions whose stream was opened and started
    failsafed,        \* history: sessions ended by the failsafe
    returned,         \* history: sessions whose audio stop_recording returned
    started,          \* history: buffer ids in the order their tasks started
    invoked,          \* history: buffer ids in the order _transcribe tried them
    delivered,        \* history: buffer ids in the order check_results reported them
    overlap           \* history: <<b1, b2>>: b2 was submitted while b1 was in flight

recVars   == <<recording, frames, stream, openStreams, session, recording_active, startCues,
               stopCues>>
queueVars == <<transcribing, pending, results, tasks>>
hotVars   == <<held, hpc, is_active, audio, saw, holdStarts, start_ret>>
taVars    == <<ta_seen, ta_buf>>
pollVars  == <<ppc, cur, clipboard, last, check_ret>>
monVars   == <<audio_monitor, report, quality>>
histVars  == <<begun, failsafed, returned, started, invoked, delivered, overlap>>
vars      == <<platform, lock, recVars, queueVars, hotVars, taVars, pollVars, monVars, nextId,
               histVars>>

----------------------------------------------------------------------------
(* Bounds of the model *)

\* capture sessions started by the hotkey controller (Spec)
MaxSessions == 2
\* buffers a client submits directly to transcribe_async (SpecQ)
MaxSubmits == 4

(* Program constants, scaled so that the failsafe and the minimum duration
   are reached within a few blocks: the relations between them are the
   source's (a block is shorter than the minimum duration, the ceiling is
   several blocks). *)
SAMPLE_RATE == 10
MAX_RECORDING_SECONDS == 1
FRAME_COUNT == 2
\* MIN_AUDIO_DURATION = 0.3 as the fraction MinDurNum / MinDurDen
MinDurNum == 3
MinDurDen == 10

Platforms == {"macos", "windows"}
Threads   == {"hotkey", "poll"}
NoStream  == 0
\* None where an audio buffer is expected; a buffer is its samples, and the
\* id of the capture or submission it came from
NoAudio   == [id |-> 0, data |-> <<>>]
NoResult  == [id |-> 0, status |-> "none", text |-> "None"]
\* what the clipboard holds when the program starts
OldClip   == "old"
\* check_results has handled no result in this call
NoDeliver == [called |-> FALSE, text |-> "None", pre |-> "", snap |-> "", wrote |-> FALSE,
              key |-> "none", restore |-> "none", cue |-> "none"]

----------------------------------------------------------------------------
(* Pure helpers *)

\* indata of the k-th callback of a capture: frame_count samples, each
\* stamped with its position in the capture
Block(k) == [j \in 1..FRAME_COUNT |-> (k - 1) * FRAME_COUNT + j]

\* the samples a client hands over in a buffer of n samples
Samples(n) == [i \in 1..n |-> i]

RECURSIVE Concatenate_Reversed(_)
\* a concatenation that puts the latest block first
Concatenate_Reversed(fs) ==
    IF fs = <<>> THEN <<>> ELSE Concatenate_Reversed(Tail(fs)) \o Head(fs)

RECURSIVE Concatenate(_)
\* np.concatenate(self.frames, axis=0)
Concatenate(fs) == IF fs = <<>> THEN <<>> ELSE Head(fs) \o Concatenate(Tail(fs))

Range(s) == {s[i] : i \in 1..Len(s)}

\* min_samples = int(SAMPLE_RATE * MIN_AUDIO_DURATION)
MinSamples == (SAMPLE_RATE * MinDurNum) \div MinDurDen

\* a failsafe that trips at twice the ceiling
FailsafeHit_Late(n, frame_count) == n * frame_count > 2 * MAX_RECORDING_SECONDS * SAMPLE_RATE

\* duration_s > MAX_RECORDING_SECONDS, duration_s = len(frames) * frame_count / SAMPLE_RATE
FailsafeHit(n, frame_count) == n * frame_count > MAX_RECORDING_SECONDS * SAMPLE_RATE

\* a guard that looks at the recording flag only
IsActive_RecordingOnly == recording

\* on_press: is_active = recorder.recording or recorder.transcribing
IsActive == recording \/ transcribing

\* a submit guard that lets an absent buffer through
HasAudio_Always(a) == TRUE

\* on_release: audio is not None and len(audio) > 0
HasAudio(a) == a # NoAudio /\ Len(a.data) > 0

\* a _transcribe without the minimum-duration check
TranscribeOutcomes_NoThreshold(len) ==
    {[status |-> "success", text |-> "hello", called |-> TRUE],
     [status |-> "success", text |-> "", called |-> TRUE],
     [status |-> "error", text |-> "reason", called |-> TRUE]}

\* the outcomes of _transcribe for a buffer of len samples, as do_transcribe
\* reports them: too short, None is returned before the try block; otherwise
\* the buffer is exported and sent to the service (called), which answers
\* with a text, possibly empty, or the attempt raises
TranscribeOutcomes(len) ==
    IF len < MinSamples
    THEN {[status |-> "success", text |-> "None", called |-> FALSE]}
    ELSE {[status |-> "success", text |-> "hello", called |-> TRUE],
          [status |-> "success", text |-> "", called |-> TRUE],
          [status |-> "error", text |-> "reason", called |-> TRUE]}

\* Python truth of a result text: None and '' are false
Truthy(x) == x # "None" /\ x # ""

\* a dispatch that pastes every success, whatever its text
ShouldPaste_AnySuccess(r) == r.status = "success"

\* check_results: `if status == 'success' and result:`
ShouldPaste(r) == r.status = "success" /\ Truthy(r.text)

\* how the paste keystroke can end: macos, osascript succeeds, is refused the
\* accessibility permission, or fails otherwise (timeout included); windows,
\* pynput succeeds, pynput fails and PowerShell runs, or both fail
KeyOutcomes(pf) ==
    IF pf = "macos" THEN {"ok", "denied", "timeout"} ELSE {"ok", "fallback", "failed"}

\* the cue heard around a paste: macos, the error cue when the permission is
\* refused; windows, the success cue after paste_text returned
PasteCue(pf, key) ==
    IF pf = "macos" THEN (IF key = "denied" THEN "error" ELSE "none") ELSE "success"

\* a paste_text that skips the restore when the keystroke did not succeed
PasteText_RestoreOnSuccess(pf, text, clip, read, copy, key, restore) ==
    [called |-> TRUE, text |-> text, pre |-> clip,
     snap |-> (IF read THEN clip ELSE ""),
     wrote |-> copy,
     key |-> (IF copy THEN key ELSE "none"),
     restore |-> (IF copy /\ key = "ok" THEN (IF restore THEN "ok" ELSE "failed") ELSE "none"),
     cue |-> (IF copy THEN PasteCue(pf, key) ELSE "none")]

\* paste_text(text) for a non-empty text, the clipboard holding clip, under
\* the outcomes of its four steps: the snapshot read (old_clipboard stays ''
\* when it fails), pyperclip.copy(text) outside any try (a failure leaves
\* paste_text as an exception), the keystroke, the restoring copy
PasteText(pf, text, clip, read, copy, key, restore) ==
    [called |-> TRUE, text |-> text, pre |-> clip,
     snap |-> (IF read THEN clip ELSE ""),
     wrote |-> copy,
     key |-> (IF copy THEN key ELSE "none"),
     restore |-> (IF copy THEN (IF restore THEN "ok" ELSE "failed") ELSE "none"),
     cue |-> (IF copy THEN PasteCue(pf, key) ELSE "none")]

\* the clipboard after the call d, which found it holding clip
ClipboardAfter(d, clip) ==
    IF ~d.wrote THEN clip
    ELSE IF d.restore = "ok" THEN d.snap
    ELSE d.text

\* check_results' last line: `return status == 'success' and result is not None`
CheckResultsReturn(r) ==
    IF r.status = "success" /\ r.text # "None" THEN "True" ELSE "False"

\* -np.inf, the level of a monitor that has seen no block
NegInf == -1000

\* 20 * log10(0 + 1e-10), the level of a block of zeros
FloorDb == -200

\* 0.99 of full scale; amplitudes are counted in hundredths of full scale,
\* levels in whole dB
ClipLevel == 99

\* AudioLevelMonitor.__init__ (rms_level, the linear twin of rms_db, is left
\* out: nothing reads it but get_report)
NewMonitor ==
    [peak_level |-> 0, peak_db |-> NegInf, rms_db |-> NegInf, num_frames |-> 0,
     clipping_detected |-> FALSE]

\* a block as update sees it: its length, np.max(np.abs(block)), and the
\* two levels 20 * log10(. + 1e-10) of its peak and of its RMS
Chunk(n, peak, peak_db, rms_db) ==
    [n |-> n, peak |-> peak, peak_db |-> peak_db, rms_db |-> rms_db]

EmptyChunk == Chunk(0, 0, FloorDb, FloorDb)

\* a block of speech at a comfortable level, as a running stream delivers it
SpeechChunk == Chunk(FRAME_COUNT, 30, -10, -18)

\* an update whose clipping flag follows the last block only
update_flag_of_last_block(m, chunk) ==
    IF chunk.n = 0
    THEN m
    ELSE [peak_level |-> IF chunk.peak > m.peak_level THEN chunk.peak ELSE m.peak_level,
          peak_db |-> IF chunk.peak > m.peak_level THEN chunk.peak_db ELSE m.peak_db,
          rms_db |-> chunk.rms_db,
          clipping_detected |-> chunk.peak >= ClipLevel,
          num_frames |-> m.num_frames + chunk.n]

\* an update that takes a block for clipped only above 0.99
update_clips_above(m, chunk) ==
    IF chunk.n = 0
    THEN m
    ELSE [peak_level |-> IF chunk.peak > m.peak_level THEN chunk.peak ELSE m.peak_level,
          peak_db |-> IF chunk.peak > m.peak_level THEN chunk.peak_db ELSE m.peak_db,
          rms_db |-> chunk.rms_db,
          clipping_detected |-> m.clipping_detected \/ chunk.peak > ClipLevel,
          num_frames |-> m.num_frames + chunk.n]

\* AudioLevelMonitor.update
update(m, chunk) ==
    IF chunk.n = 0
    THEN m
    ELSE [peak_level |-> IF chunk.peak > m.peak_level THEN chunk.peak ELSE m.peak_level,
          peak_db |-> IF chunk.peak > m.peak_level THEN chunk.peak_db ELSE m.peak_db,
          rms_db |-> chunk.rms_db,
          clipping_detected |-> m.clipping_detected \/ chunk.peak >= ClipLevel,
          num_frames |-> m.num_frames + chunk.n]

\* AudioLevelMonitor.get_report (duration_s is num_frames / sample_rate)
get_report(m) ==
    [peak_db |-> m.peak_db, rms_db |-> m.rms_db, peak_linear |-> m.peak_level,
     clipping |-> m.clipping_detected, num_frames |-> m.num_frames]

\* AudioLevelMonitor.get_quality_assessment, test by test
get_quality_assessment(m) ==
    IF m.clipping_detected THEN "clipped"
    ELSE IF m.rms_db < -30 THEN "poor"
    ELSE IF m.rms_db < -25 THEN "fair"
    ELSE IF -20 <= m.rms_db /\ m.rms_db <= -14 THEN "good"
    ELSE IF -14 < m.rms_db /\ m.rms_db < -10 THEN "good"
    ELSE IF m.rms_db >= -10 THEN "excellent"
    ELSE "unknown"

\* before stop_recording has asked the monitor
NoReport == get_report(NewMonitor)

Running == {t.buf.id : t \in tasks}

\* the process lives as long as the poll loop of main() does: an exception
\* that leaves check_results ends the loop, main() stops the listener and
\* returns, and the daemon threads end with the process
Alive == ppc # "crashed"

----------------------------------------------------------------------------
Init ==
    /\ platform \in Platforms
    /\ held = FALSE
    /\ recording = FALSE
    /\ frames = <<>>
    /\ stream = NoStream
    /\ openStreams = {}
    /\ session = 0
    /\ recording_active = FALSE
    /\ lock = "free"
    /\ transcribing = FALSE
    /\ pending = <<>>
    /\ results = <<>>
    /\ tasks = {}
    /\ hpc = "idle"
    /\ is_active = FALSE
    /\ audio = NoAudio
    /\ ta_seen = [t \in Threads |-> FALSE]
    /\ ta_buf = [t \in Threads |-> NoAudio]
    /\ ppc = "idle"
    /\ cur = NoResult
    /\ nextId = 1
    /\ startCues = 0
    /\ stopCues = 0
    /\ start_ret = FALSE
    /\ clipboard = OldClip
    /\ last = NoDeliver
    /\ check_ret = "none"
    /\ audio_monitor = NewMonitor
    /\ report = NoReport
    /\ quality = "none"
    /\ saw = [rec |-> FALSE, trans |-> FALSE]
    /\ holdStarts = 0
    /\ begun = {}
    /\ failsafed = {}
    /\ returned = {}
    /\ started = <<>>
    /\ invoked = <<>>
    /\ delivered = <<>>
    /\ overlap = {}

----------------------------------------------------------------------------
(* The hotkey-event thread: on_press / on_hotkey_press *)

\* A `with self.lock:` block run by thread th as one step: the lock is free
\* or th has it already, and th gives it back at the end of the block.
Locked(th) == lock \in {"free", th} /\ lock' = "free"

\* The handler's first part, run when the event arrives: the windows early
\* return on recording_active, then the locked read of the two flags.
on_press_body ==
    IF platform = "windows" /\ recording_active
    THEN /\ hpc' = "idle"
         /\ UNCHANGED <<is_active, saw, lock>>
    ELSE /\ Locked("hotkey")
         /\ is_active' = IsActive
         /\ saw' = [rec |-> recording, trans |-> transcribing]
         /\ hpc' = "press"

\* ComboPressed: the combo goes down
on_press ==
    /\ Alive
    /\ hpc = "idle"
    /\ ~held
    /\ nextId <= MaxSessions
    /\ held' = TRUE
    /\ holdStarts' = 0
    /\ on_press_body
    /\ UNCHANGED <<platform, monVars, recVars, queueVars, audio, start_ret, taVars, pollVars, nextId,
                   histVars>>

\* a repeated press event of the held combo (input-repeat)
on_press_repeat ==
    /\ Alive
    /\ hpc = "idle"
    /\ held
    /\ nextId <= MaxSessions
    /\ on_press_body
    /\ UNCHANGED <<platform, monVars, recVars, queueVars, held, holdStarts, audio, start_ret, taVars,
                   pollVars, nextId, histVars>>

\* `if not is_active:` is false: the press is ignored
on_press_ignore ==
    /\ Alive
    /\ hpc = "press"
    /\ is_active
    /\ hpc' = "idle"
    /\ UNCHANGED <<platform, lock, monVars, recVars, queueVars, held, is_active, start_ret, audio, saw, holdStarts,
                   taVars, pollVars, nextId, histVars>>

\* a start_recording that restarts the capture whatever the flag says
start_recording_lock_unguarded ==
    /\ Alive
    /\ Locked("hotkey")
    /\ hpc = "press"
    /\ ~is_active
    /\ recording' = TRUE
    /\ frames' = <<>>
    /\ session' = nextId
    /\ nextId' = nextId + 1
    /\ hpc' = "open"
    /\ UNCHANGED <<platform, monVars, stream, openStreams, recording_active, startCues, stopCues, queueVars,
                   held, is_active, start_ret, audio, saw, holdStarts, taVars, pollVars, histVars>>

\* a first block that keeps the lock while the stream is opened
start_recording_lock_holds ==
    /\ Alive
    /\ lock \in {"free", "hotkey"}
    /\ hpc = "press"
    /\ ~is_active
    /\ IF recording
       THEN /\ hpc' = "idle"
            /\ start_ret' = FALSE
            /\ lock' = "free"
            /\ UNCHANGED <<recording, frames, session, nextId>>
       ELSE /\ recording' = TRUE
            /\ frames' = <<>>
            /\ session' = nextId
            /\ nextId' = nextId + 1
            /\ hpc' = "open"
            /\ lock' = "hotkey"
            /\ UNCHANGED start_ret
    /\ UNCHANGED <<platform, monVars, stream, openStreams, recording_active, startCues, stopCues, queueVars,
                   held, is_active, audio, saw, holdStarts, taVars, pollVars, histVars>>

\* start_recording, first locked block
start_recording_lock ==
    /\ Alive
    /\ Locked("hotkey")
    /\ hpc = "press"
    /\ ~is_active
    /\ IF recording
       THEN /\ hpc' = "idle"
            /\ start_ret' = FALSE
            /\ UNCHANGED <<recording, frames, session, nextId>>
       ELSE /\ recording' = TRUE
            /\ frames' = <<>>
            /\ session' = nextId
            /\ nextId' = nextId + 1
            /\ hpc' = "open"
            /\ UNCHANGED start_ret
    /\ UNCHANGED <<platform, monVars, stream, openStreams, recording_active, startCues, stopCues, queueVars,
                   held, is_active, audio, saw, holdStarts, taVars, pollVars, histVars>>

\* start_recording: sd.InputStream(...) and stream.start() succeed
start_recording_open ==
    /\ Alive
    /\ hpc = "open"
    /\ stream' = session
    /\ openStreams' = openStreams \cup {session}
    /\ startCues' = startCues + 1
    /\ holdStarts' = holdStarts + 1
    /\ recording_active' = (IF platform = "windows" THEN TRUE ELSE recording_active)
    /\ begun' = begun \cup {session}
    /\ start_ret' = TRUE
    /\ hpc' = "idle"
    /\ UNCHANGED <<platform, lock, monVars, recording, frames, session, stopCues, queueVars, held, is_active,
                   audio, saw, taVars, pollVars, nextId, failsafed, returned, started, invoked,
                   delivered, overlap>>

\* start_recording: the stream cannot be opened (the constructor raises, and
\* self.stream keeps its old value) or started (start() raises after
\* self.stream was assigned the new object)
start_recording_fail ==
    /\ Alive
    /\ hpc = "open"
    /\ \E assigned \in BOOLEAN :
          stream' = (IF assigned THEN session ELSE stream)
    /\ hpc' = "reset"
    /\ UNCHANGED <<platform, lock, monVars, recording, frames, openStreams, session, recording_active,
                   startCues, stopCues, queueVars, held, is_active, start_ret, audio, saw, holdStarts, taVars,
                   pollVars, nextId, histVars>>

\* start_recording: the locked reset after a failed open
start_recording_reset ==
    /\ Alive
    /\ Locked("hotkey")
    /\ hpc = "reset"
    /\ recording' = FALSE
    /\ frames' = <<>>
    /\ start_ret' = FALSE
    /\ hpc' = "idle"
    /\ UNCHANGED <<platform, monVars, stream, openStreams, session, recording_active, startCues, stopCues,
                   queueVars, held, is_active, audio, saw, holdStarts, taVars, pollVars,
                   nextId, histVars>>

----------------------------------------------------------------------------
(* The audio callback of a running stream (one locked block) *)

callback(s) ==
    /\ Alive
    /\ Locked("audio")
    /\ s \in openStreams
    /\ recording
    /\ frames' = Append(frames, Block(Len(frames) + 1))
    /\ IF FailsafeHit(Len(frames'), FRAME_COUNT)
       THEN /\ recording' = FALSE
            /\ failsafed' = failsafed \cup {session}
       ELSE UNCHANGED <<recording, failsafed>>
    /\ audio_monitor' = (IF platform = "windows"
                         THEN update(audio_monitor, SpeechChunk)
                         ELSE audio_monitor)
    /\ UNCHANGED <<platform, report, quality, stream, openStreams, session, recording_active, startCues, stopCues,
                   queueVars, hotVars, taVars, pollVars, nextId, begun, returned, started, invoked,
                   delivered, overlap>>

----------------------------------------------------------------------------
(* The hotkey-event thread: on_release / on_hotkey_release *)

\* ComboReleased: the unlocked read of recorder.recording decides
on_release ==
    /\ Alive
    /\ hpc = "idle"
    /\ held
    /\ held' = FALSE
    /\ recording_active' = (IF platform = "windows" THEN FALSE ELSE recording_active)
    /\ hpc' = (IF recording THEN "stop" ELSE "idle")
    /\ UNCHANGED <<platform, lock, monVars, recording, frames, stream, openStreams, session, startCues, stopCues,
                   queueVars, is_active, start_ret, audio, saw, holdStarts, taVars, pollVars, nextId,
                   histVars>>

\* a stop_recording that goes on to the stream whatever the flag says
stop_recording_lock_unguarded ==
    /\ Alive
    /\ Locked("hotkey")
    /\ hpc = "stop"
    /\ recording' = FALSE
    /\ hpc' = "stopstream"
    /\ UNCHANGED <<platform, monVars, frames, stream, openStreams, session, recording_active,
                   startCues, stopCues, queueVars, held, is_active, start_ret, audio, saw,
                   holdStarts, taVars, pollVars, nextId, histVars>>

\* a first block that goes on to the stream with the flag still set
stop_recording_lock_keeps_flag ==
    /\ Alive
    /\ Locked("hotkey")
    /\ hpc = "stop"
    /\ IF ~recording
       THEN /\ hpc' = "idle"
            /\ audio' = NoAudio
       ELSE /\ hpc' = "stopstream"
            /\ UNCHANGED audio
    /\ UNCHANGED <<platform, monVars, recording, frames, stream, openStreams, session,
                   recording_active, startCues, stopCues, queueVars, held, is_active, start_ret,
                   saw, holdStarts, taVars, pollVars, nextId, histVars>>

\* stop_recording, first locked block
stop_recording_lock ==
    /\ Alive
    /\ Locked("hotkey")
    /\ hpc = "stop"
    /\ IF ~recording
       THEN /\ hpc' = "idle"
            /\ audio' = NoAudio
            /\ UNCHANGED recording
       ELSE /\ recording' = FALSE
            /\ hpc' = "stopstream"
            /\ UNCHANGED audio
    /\ UNCHANGED <<platform, monVars, frames, stream, openStreams, session, recording_active,
                   startCues, stopCues, queueVars, held, is_active, start_ret, saw, holdStarts, taVars, pollVars,
                   nextId, histVars>>

\* stop_recording: self.stream stopped, closed and forgotten; the stop cue.
\* When stop() raises, the error is logged and the handle forgotten all the
\* same: the stream may or may not have stopped.
stop_recording_stream ==
    /\ Alive
    /\ hpc = "stopstream"
    /\ IF stream # NoStream
       THEN /\ \E stopped \in BOOLEAN :
                  openStreams' = (IF stopped THEN openStreams \ {stream} ELSE openStreams)
            /\ stream' = NoStream
       ELSE UNCHANGED <<stream, openStreams>>
    /\ stopCues' = stopCues + 1
    /\ IF platform = "windows"
       THEN /\ report' = get_report(audio_monitor)
            /\ quality' = get_quality_assessment(audio_monitor)
            /\ audio_monitor' = NewMonitor
       ELSE UNCHANGED monVars
    /\ hpc' = "collect"
    /\ UNCHANGED <<platform, lock, recording, frames, session, recording_active, startCues,
                   queueVars, held, is_active, start_ret, audio, saw, holdStarts, taVars, pollVars,
                   nextId, histVars>>

\* stop_recording, second locked block: the frames leave the buffer
stop_recording_collect ==
    /\ Alive
    /\ Locked("hotkey")
    /\ hpc = "collect"
    /\ IF frames # <<>>
       THEN /\ audio' = [id |-> session, data |-> Concatenate(frames)]
            /\ returned' = returned \cup {session}
       ELSE /\ audio' = NoAudio
            /\ UNCHANGED returned
    /\ frames' = <<>>
    /\ report' = NoReport
    /\ quality' = "none"
    /\ hpc' = "got"
    /\ UNCHANGED <<platform, audio_monitor, recording, stream, openStreams, session, recording_active,
                   startCues, stopCues, queueVars, held, is_active, start_ret, saw, holdStarts, taVars, pollVars,
                   nextId, begun, failsafed, started, invoked, delivered, overlap>>

\* an entry that always finds a transcription in progress
Enter_sees_busy(t, buf) ==
    /\ ta_buf' = [ta_buf EXCEPT ![t] = buf]
    /\ ta_seen' = [ta_seen EXCEPT ![t] = TRUE]

\* transcribe_async's entry: the unlocked read of self.transcribing. It is
\* taken in the caller's step that makes the call: the caller touches no
\* shared state between the two, and the read commutes with every step of
\* another thread that could fall in between. The write that follows
\* (the flag or the wait list) is a step of its own, transcribe_async.
Enter(t, buf) ==
    /\ ta_buf' = [ta_buf EXCEPT ![t] = buf]
    /\ ta_seen' = [ta_seen EXCEPT ![t] = transcribing]

\* on_release: `if audio is not None and len(audio) > 0` submits the buffer
on_release_submit ==
    /\ Alive
    /\ hpc = "got"
    /\ IF HasAudio(audio)
       THEN /\ Enter("hotkey", audio)
            /\ overlap' = overlap \cup {<<b, audio.id>> : b \in Running}
            /\ hpc' = "ta"
       ELSE /\ hpc' = "idle"
            /\ UNCHANGED <<taVars, overlap>>
    /\ UNCHANGED <<platform, lock, monVars, recVars, queueVars, held, is_active, start_ret, audio, saw, holdStarts,
                   pollVars, nextId, begun, failsafed, returned, started, invoked, delivered>>

----------------------------------------------------------------------------
(* transcribe_async, after its read of self.transcribing, run by thread t *)

AtTa(t) == IF t = "hotkey" THEN hpc = "ta" ELSE ppc = "ta"

Return(t) ==
    IF t = "hotkey"
    THEN hpc' = "idle" /\ UNCHANGED ppc
    ELSE ppc' = "idle" /\ UNCHANGED hpc

\* `if self.transcribing:` as read at the entry: true, the buffer goes on
\* the wait list; false, the flag is set and the do_transcribe thread started
transcribe_async(t) ==
    /\ Alive
    /\ AtTa(t)
    /\ IF ta_seen[t]
       THEN /\ pending' = Append(pending, ta_buf[t])
            /\ UNCHANGED <<transcribing, tasks, started>>
       ELSE /\ transcribing' = TRUE
            /\ tasks' = tasks \cup {[buf |-> ta_buf[t], pc |-> "run"]}
            /\ started' = Append(started, ta_buf[t].id)
            /\ UNCHANGED pending
    /\ Return(t)
    /\ UNCHANGED <<platform, lock, monVars, recVars, results, held, is_active, start_ret, audio, saw, holdStarts,
                   taVars, cur, clipboard, last, check_ret, nextId, begun, failsafed, returned,
                   invoked, delivered, overlap>>

----------------------------------------------------------------------------
(* A background task: do_transcribe *)

\* a task that tries again after a failed attempt instead of reporting it
do_transcribe_put_retries(t) ==
    /\ Alive
    /\ t \in tasks
    /\ t.pc = "run"
    /\ \E o \in TranscribeOutcomes(Len(t.buf.data)) :
          /\ invoked' = (IF o.called THEN Append(invoked, t.buf.id) ELSE invoked)
          /\ IF o.status = "error"
             THEN UNCHANGED <<results, tasks>>
             ELSE /\ results' = Append(results, [id |-> t.buf.id, status |-> o.status,
                                                 text |-> o.text])
                  /\ tasks' = (tasks \ {t}) \cup {[t EXCEPT !.pc = "finally"]}
    /\ UNCHANGED <<platform, lock, monVars, recVars, transcribing, pending, hotVars, taVars, pollVars,
                   nextId, begun, failsafed, returned, started, delivered, overlap>>

\* try / except: _transcribe's outcome is put on the result queue
do_transcribe_put(t) ==
    /\ Alive
    /\ t \in tasks
    /\ t.pc = "run"
    /\ \E o \in TranscribeOutcomes(Len(t.buf.data)) :
          /\ results' = Append(results, [id |-> t.buf.id, status |-> o.status, text |-> o.text])
          /\ invoked' = (IF o.called THEN Append(invoked, t.buf.id) ELSE invoked)
    /\ tasks' = (tasks \ {t}) \cup {[t EXCEPT !.pc = "finally"]}
    /\ UNCHANGED <<platform, lock, monVars, recVars, transcribing, pending, hotVars, taVars, pollVars,
                   nextId, begun, failsafed, returned, started, delivered, overlap>>

\* a completion that itself takes the next buffer off the wait list
do_transcribe_finally_drains(t) ==
    /\ Alive
    /\ t \in tasks
    /\ t.pc = "finally"
    /\ IF pending = <<>>
       THEN /\ transcribing' = FALSE
            /\ tasks' = tasks \ {t}
            /\ UNCHANGED <<pending, started>>
       ELSE /\ transcribing' = TRUE
            /\ pending' = Tail(pending)
            /\ tasks' = (tasks \ {t}) \cup {[buf |-> Head(pending), pc |-> "run"]}
            /\ started' = Append(started, Head(pending).id)
    /\ UNCHANGED <<platform, lock, monVars, recVars, results, hotVars, taVars, pollVars, nextId,
                   begun, failsafed, returned, invoked, delivered, overlap>>

\* finally: the in-flight flag is cleared and the thread ends
do_transcribe_finally(t) ==
    /\ Alive
    /\ t \in tasks
    /\ t.pc = "finally"
    /\ transcribing' = FALSE
    /\ tasks' = tasks \ {t}
    /\ UNCHANGED <<platform, lock, monVars, recVars, pending, results, hotVars, taVars, pollVars, nextId,
                   histVars>>

----------------------------------------------------------------------------
(* The poll loop of main(): check_results *)

\* a poll tick that takes the newest result instead of the oldest
check_results_get_newest ==
    /\ ppc = "idle"
    /\ results # <<>>
    /\ cur' = results[Len(results)]
    /\ results' = SubSeq(results, 1, Len(results) - 1)
    /\ ppc' = "deliver"
    /\ check_ret' = "none"
    /\ UNCHANGED <<platform, lock, monVars, recVars, transcribing, pending, tasks, hotVars, taVars,
                   clipboard, last, nextId, histVars>>

\* result_queue.get_nowait() finds a result
check_results_get ==
    /\ ppc = "idle"
    /\ results # <<>>
    /\ cur' = Head(results)
    /\ results' = Tail(results)
    /\ ppc' = "deliver"
    /\ check_ret' = "none"
    /\ UNCHANGED <<platform, lock, monVars, recVars, transcribing, pending, tasks, hotVars, taVars,
                   clipboard, last, nextId, histVars>>

\* result_queue.get_nowait() raises queue.Empty: check_results returns None
check_results_empty ==
    /\ ppc = "idle"
    /\ results = <<>>
    /\ check_ret' = "None"
    /\ UNCHANGED <<platform, lock, monVars, recVars, queueVars, hotVars, taVars, ppc, cur, clipboard,
                   last, nextId, histVars>>

\* the result is reported: paste_text, from its start to its return, for a
\* success with text, the error cue otherwise. Only this thread touches the
\* clipboard. An exception leaving paste_text leaves check_results and the
\* `while True` of main() with it: the poll loop is over.
check_results_report(clipOutcomes) ==
    /\ ppc = "deliver"
    /\ delivered' = Append(delivered, cur.id)
    /\ IF ShouldPaste(cur)
       THEN \E read, copy, restore \in clipOutcomes : \E key \in KeyOutcomes(platform) :
               /\ last' = PasteText(platform, cur.text, clipboard, read, copy, key, restore)
               /\ clipboard' = ClipboardAfter(last', clipboard)
               /\ ppc' = (IF copy THEN "drain" ELSE "crashed")
       ELSE /\ last' = [NoDeliver EXCEPT !.cue = "error"]
            /\ ppc' = "drain"
            /\ UNCHANGED clipboard
    /\ UNCHANGED <<platform, lock, monVars, recVars, queueVars, hotVars, taVars, cur, check_ret, nextId,
                   begun, failsafed, returned, started, invoked, overlap>>

\* a clipboard access works (TRUE) or raises (FALSE)
check_results_deliver == check_results_report(BOOLEAN)

\* the same with a clipboard that never fails
check_results_deliver_clip_ok == check_results_report({TRUE})

\* pending_audio_queue.get_nowait(): the next queued buffer, if any, is
\* handed to transcribe_async; the return value follows from status and
\* result alone and is fixed here
check_results_drain ==
    /\ ppc = "drain"
    /\ IF pending = <<>>
       THEN /\ ppc' = "idle"
            /\ UNCHANGED <<pending, taVars>>
       ELSE /\ pending' = Tail(pending)
            /\ Enter("poll", Head(pending))
            /\ ppc' = "ta"
    /\ check_ret' = CheckResultsReturn(cur)
    /\ cur' = NoResult
    /\ last' = NoDeliver
    /\ UNCHANGED <<platform, lock, monVars, recVars, transcribing, results, tasks, hotVars, clipboard, nextId,
                   histVars>>

----------------------------------------------------------------------------
(* A client of the TranscriptionQueue contract: the event thread calls
   transcribe_async(audio_data) directly, as on_release does, with a buffer
   of its own and at any time, also while a transcription is in flight.
   Under the hotkey handlers alone (Spec) on_press refuses to start a capture
   while self.transcribing is set, so no buffer ever reaches the wait list
   there; the queue's own contract is what SpecQ exercises. *)

\* the shortest buffer _transcribe sends on to the service
SubmitLens == {MinSamples}

submit ==
    /\ Alive
    /\ hpc = "idle"
    /\ nextId <= MaxSubmits
    /\ \E n \in SubmitLens :
          Enter("hotkey", [id |-> nextId, data |-> Samples(n)])
    /\ overlap' = overlap \cup {<<b, nextId>> : b \in Running}
    /\ nextId' = nextId + 1
    /\ hpc' = "ta"
    /\ UNCHANGED <<platform, lock, monVars, recVars, queueVars, held, is_active, start_ret, audio, saw, holdStarts,
                   pollVars, begun, failsafed, returned, started, invoked, delivered>>

----------------------------------------------------------------------------
(* A client of the recorder's own contract: one thread calls start_recording
   and stop_recording directly, in any order, while the audio callbacks run.
   The hotkey handlers never call start_recording on an active recorder (they
   look at the flags first and are the only caller); this client does. *)

\* recorder.start_recording()
start_recording_call ==
    /\ hpc = "idle"
    /\ nextId <= MaxSessions
    /\ is_active' = FALSE
    /\ hpc' = "press"
    /\ UNCHANGED <<platform, lock, monVars, recVars, queueVars, held, audio, saw, holdStarts, start_ret,
                   taVars, pollVars, nextId, histVars>>

\* recorder.stop_recording()
stop_recording_call ==
    /\ hpc = "idle"
    /\ hpc' = "stop"
    /\ UNCHANGED <<platform, lock, monVars, recVars, queueVars, held, is_active, audio, saw, holdStarts,
                   start_ret, taVars, pollVars, nextId, histVars>>

\* stop_recording has returned its buffer to the client
stop_recording_return ==
    /\ hpc = "got"
    /\ hpc' = "idle"
    /\ UNCHANGED <<platform, lock, monVars, recVars, queueVars, held, is_active, audio, saw, holdStarts,
                   start_ret, taVars, pollVars, nextId, histVars>>

----------------------------------------------------------------------------
(* The lock, step by step: a thread that reaches a `with self.lock:` takes
   the lock when it is free and runs the block in a later step, so that the
   other threads' steps fall between the two. The only blocks are those of
   start_recording, stop_recording, on_press and the audio callback. *)

\* positions of the calling thread at which the next statement is a
\* `with self.lock:` of start_recording or stop_recording
LockPoints == {"press", "reset", "stop", "collect"}

\* positions at which the next statement opens or stops the audio stream
StreamPoints == {"open", "stopstream"}

\* the calling thread enters a block of start_recording or stop_recording
lock_acquire ==
    /\ Alive
    /\ lock = "free"
    /\ hpc \in LockPoints
    /\ hpc = "press" => ~is_active
    /\ lock' = "hotkey"
    /\ UNCHANGED <<platform, monVars, recVars, queueVars, hotVars, taVars, pollVars, nextId,
                   histVars>>

\* the audio thread enters the block of callback
callback_acquire ==
    /\ Alive
    /\ lock = "free"
    /\ openStreams # {}
    /\ lock' = "audio"
    /\ UNCHANGED <<platform, monVars, recVars, queueVars, hotVars, taVars, pollVars, nextId,
                   histVars>>

\* a callback that, finding the flag clear, stays in its block
callback_idle_waits ==
    /\ Alive
    /\ lock = "audio"
    /\ ~recording
    /\ lock' = "audio"
    /\ UNCHANGED <<platform, monVars, recVars, queueVars, hotVars, taVars, pollVars, nextId,
                   histVars>>

\* callback, inside its block: `if self.recording:` is false
callback_idle ==
    /\ Alive
    /\ lock = "audio"
    /\ ~recording
    /\ lock' = "free"
    /\ UNCHANGED <<platform, monVars, recVars, queueVars, hotVars, taVars, pollVars, nextId,
                   histVars>>

----------------------------------------------------------------------------
(* A client of AudioLevelMonitor: blocks of any level are fed to update, the
   monitor is asked for its report and its class at any time, and a fresh
   monitor replaces it, as stop_recording does. *)

\* frames one monitor is fed at most
MaxMonitorFrames == 2

\* RMS levels (dB) on both sides of every threshold of the classification
QuietLevels == {-31, -30, -26, -25, -21, -20}
LoudLevels  == {-14, -13, -11, -10, -8}

\* the blocks fed to update: none, silence, quiet and loud blocks of one
\* frame, a block that touches 0.99 and a click at full scale
MonitorChunks ==
    {EmptyChunk, Chunk(1, 0, FloorDb, FloorDb)}
      \cup {Chunk(1, 10, -20, r) : r \in QuietLevels}
      \cup {Chunk(1, 60, -4, r) : r \in LoudLevels}
      \cup {Chunk(1, ClipLevel, 0, -8), Chunk(1, 100, 0, -25)}

progVars == <<platform, lock, recVars, queueVars, hotVars, taVars, pollVars, nextId, histVars>>

\* audio_monitor.update(indata)
update_call ==
    /\ \E c \in MonitorChunks :
          /\ audio_monitor.num_frames + c.n <= MaxMonitorFrames
          /\ audio_monitor' = update(audio_monitor, c)
    /\ UNCHANGED <<progVars, report, quality>>

\* report = audio_monitor.get_report(); quality, _ = get_quality_assessment()
assess_call ==
    /\ report' = get_report(audio_monitor)
    /\ quality' = get_quality_assessment(audio_monitor)
    /\ UNCHANGED <<progVars, audio_monitor>>

\* self.audio_monitor = AudioLevelMonitor(SELECTED_SR)
new_monitor ==
    /\ audio_monitor' = NewMonitor
    /\ UNCHANGED <<progVars, report, quality>>

----------------------------------------------------------------------------
(* Specifications *)


\* the steps of transcribe_async, of the tasks and of the poll loop, but for
\* the report of a dequeued result
TaskNext ==
    \/ \E t \in Threads : transcribe_async(t)
    \/ \E t \in tasks : do_transcribe_put(t)
    \/ \E t \in tasks : do_transcribe_finally(t)
    \/ check_results_get
    \/ check_results_empty
    \/ check_results_drain

QueueNext == TaskNext \/ check_results_deliver

\* the whole program: hotkey handlers, audio callbacks, tasks and poll loop
HotkeyNext ==
    \/ on_press
    \/ on_press_repeat
    \/ on_press_ignore
    \/ start_recording_lock
    \/ start_recording_open
    \/ start_recording_fail
    \/ start_recording_reset
    \/ on_release
    \/ stop_recording_lock
    \/ stop_recording_stream
    \/ stop_recording_collect
    \/ on_release_submit

\* the audio thread: a block arrives from a running stream
AudioNext == \E s \in openStreams : callback(s)

Next == HotkeyNext \/ AudioNext \/ QueueNext

Spec == Init /\ [][Next]_vars

\* What keeps running without any event from the user: a handler, once
\* called, runs to its return; a running stream keeps delivering blocks; a
\* started do_transcribe thread runs to its end; the `while True` of main()
\* calls check_results every RESULT_CHECK_INTERVAL seconds.
HandlerNext ==
    \/ start_recording_lock
    \/ start_recording_open
    \/ start_recording_fail
    \/ start_recording_reset
    \/ stop_recording_lock
    \/ stop_recording_stream
    \/ stop_recording_collect
    \/ on_release_submit
    \/ transcribe_async("hotkey")

WorkerNext ==
    \/ \E t \in tasks : do_transcribe_put(t)
    \/ \E t \in tasks : do_transcribe_finally(t)

PollNext ==
    \/ check_results_get
    \/ check_results_empty
    \/ check_results_deliver
    \/ check_results_drain
    \/ transcribe_async("poll")

\* the program under a scheduler that lets every thread run; key presses and
\* releases stay the user's choice
FairSpec ==
    /\ Spec
    /\ WF_vars(HandlerNext)
    /\ WF_vars(AudioNext)
    /\ WF_vars(WorkerNext)
    /\ WF_vars(PollNext)

\* the transcription queue under direct submissions, with a clipboard that
\* never fails; transcribe_async, do_transcribe and the queue part of
\* check_results are the same text in both platform files, so one platform
\* stands for both
InitQ == Init /\ platform = "macos"

NextQ == submit \/ TaskNext \/ check_results_deliver_clip_ok

SpecQ == InitQ /\ [][NextQ]_vars

\* the recorder under direct calls, on either platform
NextR ==
    \/ start_recording_call
    \/ stop_recording_call
    \/ start_recording_lock
    \/ start_recording_open
    \/ start_recording_fail
    \/ start_recording_reset
    \/ AudioNext
    \/ stop_recording_lock
    \/ stop_recording_stream
    \/ stop_recording_collect
    \/ stop_recording_return

SpecR == Init /\ [][NextR]_vars

\* the recorder under direct calls with the lock taken step by step
NextL == NextR \/ lock_acquire \/ callback_acquire \/ callback_idle

SpecL == Init /\ [][NextL]_vars

\* the statements of start_recording and stop_recording, which the calling
\* thread runs one after the other once it is in the call
RecorderNext ==
    \/ start_recording_lock
    \/ start_recording_open
    \/ start_recording_fail
    \/ start_recording_reset
    \/ stop_recording_lock
    \/ stop_recording_stream
    \/ stop_recording_collect
    \/ stop_recording_return

\* the audio thread inside callback's block
CallbackNext == AudioNext \/ callback_idle

\* SpecL under a scheduler that lets every thread run and a lock that a
\* waiting thread gets when it is free again and again; when the client
\* calls and whether a block arrives stay free
FairSpecL ==
    /\ SpecL
    /\ WF_vars(RecorderNext)
    /\ WF_vars(CallbackNext)
    /\ SF_vars(lock_acquire)

\* the level monitor alone, fed and asked by a client
NextM == update_call \/ assess_call \/ new_monitor

SpecM == Init /\ [][NextM]_vars

----------------------------------------------------------------------------
(* Properties of the transcription queue, stated for SpecQ *)

Ascending(s) == \A i, j \in 1..Len(s) : i < j => s[i] < s[j]

IndexOf(s, x) == CHOOSE i \in 1..Len(s) : s[i] = x

\* nothing is in progress and check_results would find no result
Quiescent == hpc = "idle" /\ ppc = "idle" /\ tasks = {} /\ results = <<>>

\* C1: at most one transcription background task is executing at any time.
C1_AtMostOneTask == Cardinality(tasks) <= 1

\* C2: transcriptions are started, and their results reported by
\* check_results, in the order the buffers were submitted (ids ascend).
C2_FifoOrder == Ascending(started) /\ Ascending(delivered)

\* C3: if B2 was submitted while B1 was in flight, B2 is not started before
\* B1's task has completed and B2 is reported strictly after B1.
C3_OverlapOrdered ==
    \A p \in overlap :
        /\ p[2] \in Range(started) => p[1] \notin Running
        /\ p[2] \in Range(delivered) =>
              /\ p[1] \in Range(delivered)
              /\ IndexOf(delivered, p[1]) < IndexOf(delivered, p[2])

\* C4: every submitted buffer is eventually transcribed and reported: once
\* nothing is in progress any more (no call, no task, no queued result),
\* no buffer is left on the wait list and every submitted one was reported.
C4_AllReportedWhenQuiescent ==
    Quiescent => /\ pending = <<>>
                 /\ \A b \in 1..(nextId - 1) : b \in Range(delivered)

\* C5 (as claimed): when a task completes and the wait list is non-empty, the
\* next buffer is dequeued and its task started by that completion, before
\* the result is reported.
C5_DrainOnCompletion ==
    [][ ((\E t \in tasks : t.pc = "finally" /\ t \notin tasks') /\ pending # <<>>)
        => (pending' = Tail(pending) /\ Head(pending).id \in {t.buf.id : t \in tasks'})
      ]_vars

\* C5 (amended): a buffer leaves the wait list only in check_results, after
\* the dequeued result has been reported, and goes to transcribe_async; a
\* completing task clears the in-flight flag and leaves the wait list alone.
C5_DrainOnlyInCheckResults ==
    [][ /\ Len(pending') < Len(pending) =>
              /\ ppc = "drain" /\ ppc' = "ta"
              /\ delivered # <<>> /\ delivered[Len(delivered)] = cur.id
              /\ pending' = Tail(pending)
              /\ ta_buf'["poll"] = Head(pending)
        /\ (\E t \in tasks : t.pc = "finally" /\ t \notin tasks') =>
              /\ pending' = pending
              /\ ~transcribing'
      ]_vars

\* a buffer taken off the wait list by check_results after a report
C5_Witness ==
    /\ ppc = "ta"
    /\ delivered # <<>>
    /\ ta_buf["poll"] # NoAudio
    /\ tasks = {}

----------------------------------------------------------------------------
(* Properties of the lifecycle controller, stated for Spec *)

\* the recorder state a press handler could touch
recorderState == <<recording, frames, stream, openStreams, session, startCues,
                   transcribing, pending, results, tasks>>

Count(s, x) == Cardinality({i \in 1..Len(s) : s[i] = x})

\* ids of the results produced so far, in the order they were put
Produced == delivered \o [i \in 1..Len(results) |-> results[i].id]
                      \o (IF ppc = "deliver" THEN <<cur.id>> ELSE <<>>)

\* the session's capture is over and its release has been handled
Completed(s) == s \in begun /\ hpc = "idle" /\ ~held /\ ~(recording /\ session = s)

\* C6 (as claimed): a combo press that arrives when no capture is active but
\* the in-flight flag is set starts a new recording.
C6_PressWhileTranscribingStarts ==
    [][ (hpc = "press" /\ hpc' # "press" /\ ~saw.rec /\ saw.trans) => recording' ]_vars

\* C6 (amended): no capture is ever active while the in-flight flag is set
\* or a task runs: a press during a transcription is ignored, and a capture
\* starts only once the flag is cleared (the result may still be unreported).
C6_NoCaptureWhileInFlight ==
    /\ recording => (~transcribing /\ tasks = {})
    /\ (hpc = "open" \/ hpc = "reset") => (~saw.rec /\ ~saw.trans)

\* a second capture running while the first session's result is unreported
C6_Witness ==
    /\ recording
    /\ session = 2
    /\ results # <<>>
    /\ results[1].id = 1
    /\ delivered = <<>>

\* C7: a combo press that arrives while a capture is active or a
\* transcription is in flight is ignored: the handler returns and leaves
\* the recording flag, frames, stream, start cue count and queues unchanged.
C7_ActivePressIgnored ==
    [][ (hpc = "press" /\ hpc' # "press" /\ (saw.rec \/ saw.trans))
        => (hpc' = "idle" /\ UNCHANGED recorderState) ]_vars

\* a press that arrived during a transcription has been handled and ignored
C7_Witness ==
    /\ hpc = "idle"
    /\ saw.trans /\ ~saw.rec
    /\ is_active
    /\ ~recording
    /\ startCues = 1

\* C8: a session ended by the failsafe has self-terminated: once its hold is
\* over (release handled), its audio was returned by the capture, its stream
\* is stopped and its frames have left the capture buffer.
C8_FailsafeReturnsAudio ==
    \A s \in failsafed :
        Completed(s) =>
            /\ s \in returned
            /\ s \notin openStreams
            /\ (session = s => frames = <<>>)

\* C9 (as claimed): each completed capture session yields exactly one
\* result: never more than one is produced, and once nothing is in progress
\* one has been reported for it.
C9_ExactlyOneResult ==
    \A s \in begun :
        /\ Count(Produced, s) <= 1
        /\ (Completed(s) /\ Quiescent) => Count(delivered, s) = 1

\* C9 (amended): each capture session yields at most one result, and yields
\* one exactly when stop_recording returned a non-empty buffer for it.
C9_OneResultIffAudioReturned ==
    /\ \A i \in 1..Len(Produced) :
          /\ Produced[i] \in returned
          /\ Count(Produced, Produced[i]) = 1
    /\ \A t \in tasks : t.buf.id \in returned
    /\ Quiescent => \A s \in begun : (s \in returned <=> Count(delivered, s) = 1)

\* one completed session was reported once, another yielded no result
C9_Witness ==
    /\ Quiescent
    /\ \E s1, s2 \in begun :
          /\ Completed(s1) /\ Completed(s2)
          /\ s1 \in returned /\ Count(delivered, s1) = 1
          /\ s2 \notin returned /\ s2 \notin failsafed /\ Count(delivered, s2) = 0

\* C10: at most one capture session is started between a combo press and
\* its matching release, repeated press events included.
C10_OneSessionPerHold == holdStarts <= 1

\* the hotkey thread takes a step of its own
HotkeyStep == hpc' # hpc

\* C11: a release that finds the recording flag set calls stop_recording, and
\* when the handler returns the capture is stopped (no stream is held any
\* more) and the flag is false, whether or not anything was submitted; the
\* buffer is submitted exactly when stop_recording returned a non-empty one;
\* a release that finds the flag clear submits nothing and changes no
\* recorder state.
C11_ReleaseStopsAndSubmits ==
    [][ /\ (hpc = "idle" /\ held /\ ~held') =>
              IF recording
              THEN hpc' = "stop"
              ELSE hpc' = "idle" /\ UNCHANGED recorderState /\ UNCHANGED taVars
        /\ (hpc \in {"stop", "got"} /\ hpc' \in {"idle", "ta"}) =>
              (~recording' /\ stream' = NoStream)
        /\ (hpc = "stop" /\ hpc' = "idle") => UNCHANGED <<taVars, queueVars>>
        /\ (hpc = "got" /\ HotkeyStep) =>
              IF audio # NoAudio /\ Len(audio.data) > 0
              THEN hpc' = "ta" /\ ta_buf'["hotkey"] = audio
              ELSE hpc' = "idle" /\ UNCHANGED <<taVars, queueVars>>
      ]_vars

----------------------------------------------------------------------------
(* Properties of _transcribe and of the background task *)

\* the put step of task t: _transcribe has ended and its outcome is queued
PutStep(t) == t.pc = "run" /\ [t EXCEPT !.pc = "finally"] \in tasks'

C13_NoRetry ==
    /\ \A b \in 1..(nextId - 1) :
          /\ Count(invoked, b) <= 1
          /\ Count(Produced, b) <= 1
          /\ b \in Range(invoked) => Count(Produced, b) = 1
    /\ \A i \in 1..Len(results) :
          results[i].status = "error" =>
              (results[i].text = "reason" /\ Count(invoked, results[i].id) = 1)
    /\ cur.status = "error" => (cur.text = "reason" /\ Count(invoked, cur.id) = 1)

\* a failed attempt was reported by the error cue, its buffer tried once
C13_Witness ==
    /\ ppc = "drain"
    /\ cur.status = "error"
    /\ last.cue = "error"
    /\ Count(invoked, cur.id) = 1
    /\ Count(delivered, cur.id) = 1

----------------------------------------------------------------------------
(* Properties of start_recording and stop_recording, stated for SpecR
   (C15 for Spec) *)

\* C14: start_recording called while a session is active returns False and
\* does nothing: the recording flag stays true, the frame buffer keeps its
\* frames, the stream is untouched and no start cue is emitted.
C14_StartWhileActiveIsNoOp ==
    [][ (hpc = "press" /\ ~is_active /\ recording /\ HotkeyStep) =>
            /\ hpc' = "idle"
            /\ start_ret' = FALSE
            /\ recording'
            /\ UNCHANGED <<frames, stream, openStreams, session, startCues>>
      ]_vars

\* a running capture with frames in its buffer has just refused a second
\* start_recording call
C14_Witness ==
    /\ hpc = "idle"
    /\ recording
    /\ ~start_ret
    /\ frames # <<>>
    /\ stream = session
    /\ startCues = 1

\* C15: when the stream cannot be opened or started, start_recording returns
\* False with the recorder back in the idle state: recording flag false,
\* frame buffer empty, no stream retained.
C15_FailedStartResetsAll ==
    [][ (hpc = "reset" /\ HotkeyStep) =>
            /\ hpc' = "idle"
            /\ start_ret' = FALSE
            /\ ~recording'
            /\ frames' = <<>>
            /\ stream' = NoStream
      ]_vars

\* C16: stop_recording called while no session is active returns None and
\* has no effect: the flag, the stream and the frame buffer are untouched
\* and no stop cue is emitted.
C16_StopWhileIdleIsNoOp ==
    [][ (hpc = "stop" /\ ~recording /\ HotkeyStep) =>
            /\ hpc' = "idle"
            /\ audio' = NoAudio
            /\ UNCHANGED <<recording, frames, stream, openStreams, startCues, stopCues>>
      ]_vars

\* after one capture was stopped and its buffer returned, a further
\* stop_recording call returned None without a stop cue
C16_Witness ==
    /\ hpc = "idle"
    /\ ~recording
    /\ begun = {1}
    /\ returned = {1}
    /\ stopCues = 1
    /\ audio = NoAudio

\* what stop_recording hands back for the buffered blocks fs: all their
\* samples, block after block in arrival order
IsConcatenation(a, fs) ==
    /\ Len(a) = FRAME_COUNT * Len(fs)
    /\ \A k \in 1..Len(fs) : \A j \in 1..FRAME_COUNT :
          a[(k - 1) * FRAME_COUNT + j] = fs[k][j]

\* C17 (as claimed): stop_recording on an active session returns the
\* concatenation of the buffered frames in arrival order, and None when the
\* buffer is empty or shorter than the minimum duration.
C17_ReturnsConcatOrNoneIfShort ==
    [][ (hpc = "collect" /\ HotkeyStep) =>
            /\ frames' = <<>>
            /\ IF frames = <<>> \/ FRAME_COUNT * Len(frames) < (SAMPLE_RATE * 3) \div 10
               THEN audio' = NoAudio
               ELSE audio'.id = session /\ IsConcatenation(audio'.data, frames)
      ]_vars

\* C17 (amended): stop_recording on an active session returns the
\* concatenation of the buffered frames in arrival order whenever there is a
\* frame, however short the result, and None only for an empty buffer; the
\* buffer is empty afterwards.
C17_ReturnsConcatOrNoneIfEmpty ==
    [][ (hpc = "collect" /\ HotkeyStep) =>
            /\ frames' = <<>>
            /\ IF frames = <<>>
               THEN audio' = NoAudio
               ELSE /\ audio' # NoAudio
                    /\ audio'.id = session
                    /\ IsConcatenation(audio'.data, frames)
      ]_vars

\* stop_recording has returned a buffer shorter than the minimum duration
C17_Witness ==
    /\ hpc = "got"
    /\ audio # NoAudio
    /\ Len(audio.data) = FRAME_COUNT
    /\ Len(audio.data) < (SAMPLE_RATE * 3) \div 10
    /\ frames = <<>>

----------------------------------------------------------------------------
(* Properties of check_results and paste_text, stated for Spec *)

\* check_results has dealt with the dequeued result cur, as last tells
Reported == ppc = "drain" \/ ppc = "crashed"

\* C18: paste_text is invoked exactly for a dequeued success with non-empty
\* text, and with that text; an empty result or a failure gets the error cue
\* only: no clipboard access, no paste keystroke.
C18_PasteIffSuccessWithText ==
    [][ (ppc = "deliver" /\ ppc' # ppc) =>
            /\ last'.called <=> (cur.status = "success" /\ cur.text # "None" /\ cur.text # "")
            /\ last'.called => last'.text = cur.text
            /\ ~last'.called =>
                  /\ last'.cue = "error"
                  /\ ~last'.wrote /\ last'.key = "none" /\ last'.restore = "none"
                  /\ clipboard' = clipboard
                  /\ ppc' = "drain"
      ]_vars

\* a success with empty text was reported by the error cue, not pasted
C18_Witness ==
    /\ ppc = "drain"
    /\ cur.status = "success"
    /\ cur.text = ""
    /\ ~last.called
    /\ last.cue = "error"
    /\ clipboard = OldClip

\* C19: in every paste_text call with non-empty text the restoring write of
\* the snapshot is executed, whatever became of the paste keystroke.
C19_RestoreAlwaysRuns ==
    (Reported /\ last.called) => (last.restore = "ok" \/ last.restore = "failed")

\* C20 (as claimed): after any paste_text call has returned, the clipboard
\* holds what it held immediately before the call, for every outcome of the
\* keystroke and of the clipboard read, write and restore.
C20_ClipboardRoundTrip ==
    (ppc = "drain" /\ last.called) => clipboard = last.pre

\* C20 (amended): after a paste_text call has returned, the restoring write
\* was attempted whatever the keystroke did; if it succeeded the clipboard
\* holds the snapshot taken at the start of the call, which is the pre-call
\* content or, after a failed read, the empty string; if it failed the
\* clipboard still holds the pasted text. A call whose write of the text
\* fails does not return: it raises, the clipboard as it was.
C20_ClipboardHoldsSnapshotIfRestored ==
    /\ (ppc = "drain" /\ last.called) =>
          /\ last.wrote
          /\ last.key \in KeyOutcomes(platform)
          /\ last.restore = "ok" \/ last.restore = "failed"
          /\ last.snap = last.pre \/ last.snap = ""
          /\ last.restore = "ok" => clipboard = last.snap
          /\ last.restore = "failed" => clipboard = last.text
    /\ (ppc = "crashed") =>
          /\ last.called /\ ~last.wrote
          /\ clipboard = last.pre

\* the keystroke failed and the snapshot read had failed: paste_text
\* returned with the empty string restored over the earlier content
C20_Witness ==
    /\ ppc = "drain"
    /\ last.called
    /\ last.key # "ok"
    /\ last.restore = "ok"
    /\ last.pre = OldClip
    /\ last.snap = ""
    /\ clipboard = ""

\* C21: a clipboard read or write failure during paste_text is swallowed:
\* no exception leaves paste_text (the poll loop lives on), and after a
\* failed read the paste goes on with the empty string as the snapshot that
\* is restored later.
C21_ClipboardErrorsSwallowed ==
    /\ ppc # "crashed"
    /\ (ppc = "drain" /\ last.called) => last.wrote
    /\ (ppc = "drain" /\ last.called /\ last.snap # last.pre) =>
          /\ last.snap = ""
          /\ last.key \in KeyOutcomes(platform)
          /\ last.restore = "ok" => clipboard = ""

\* a cycle has just failed: the device did not open, the transcription
\* reported an error, or paste_text met a keystroke or clipboard failure
CycleFailed ==
    \/ hpc = "reset"
    \/ ppc = "deliver" /\ cur.status = "error"
    \/ /\ Reported
       /\ last.called
       /\ \/ last.snap # last.pre
          \/ ~last.wrote
          \/ last.key \in {"denied", "timeout", "failed"}
          \/ last.restore = "failed"

\* the poll loop runs and the next press starts a capture
IdleReady == Alive /\ ~recording /\ ~transcribing

\* C22: no single cycle's failure stops the program: after a device-open
\* failure, a transcription error, a paste-simulation failure or a clipboard
\* read/write failure the poll loop keeps running and the controller
\* reaches a state with the recording flag and the in-flight flag both
\* false, where the next press starts a capture.
C22_FailureLeadsToReady == CycleFailed ~> IdleReady

\* the classes the specification's table gives to an RMS level
TableClass(rms) ==
    IF rms < -30 THEN "poor"
    ELSE IF rms < -25 THEN "fair"
    ELSE IF rms < -10 THEN "good"
    ELSE "excellent"

\* C23: with the clipping flag clear, get_quality_assessment answers poor
\* for RMS < -30, fair for -30 <= RMS < -25, good for -25 <= RMS < -10 and
\* excellent for RMS >= -10; its answer is always one of clipped, poor,
\* fair, good, excellent.
C23_QualityTable ==
    quality # "none" =>
        /\ quality \in {"clipped", "poor", "fair", "good", "excellent"}
        /\ ~report.clipping => quality = TableClass(report.rms_db)

\* C24: the class is a function of the monitor's (peak, RMS, clipping) for
\* which RMS = -25 without clipping gives fair and RMS = -8 without clipping
\* gives excellent.
C24_QualityExamples ==
    quality # "none" =>
        /\ quality = get_quality_assessment(
                        [NewMonitor EXCEPT !.peak_level = report.peak_linear,
                                           !.peak_db = report.peak_db,
                                           !.rms_db = report.rms_db,
                                           !.clipping_detected = report.clipping])
        /\ (~report.clipping /\ report.rms_db = -25) => quality = "fair"
        /\ (~report.clipping /\ report.rms_db = -8) => quality = "excellent"

\* check_results leaves its try block: the return value is fixed
ReturnsFromResult == ppc = "drain" /\ ppc' # "drain"

\* C25: check_results returns None exactly when no result was queued, True
\* exactly when it pasted text (a success with non-empty text), and False
\* for every other dequeued result; it never waits for a result.
C25_ReturnValue ==
    [][ /\ ReturnsFromResult =>
              /\ check_ret' \in {"True", "False"}
              /\ check_ret' = "True" <=> (last.called /\ ShouldPaste(cur))
        /\ (check_ret' = "None" /\ check_ret # "None") =>
              (ppc = "idle" /\ results = <<>> /\ ppc' = "idle")
        /\ (ppc = "idle" /\ ppc' # "idle") => results # <<>> ]_vars

\* a poll tick finds a result
TickObserves == ppc = "idle" /\ ppc' = "deliver"

\* check_results reports a success with text
DeliverStep == ppc = "deliver" /\ ShouldPaste(cur) /\ ppc' # "deliver"

\* C26: end to end: after a press, frames of at least the minimum duration
\* and a release, once the service has returned non-empty text the next poll
\* tick observes that success result, paste_text is called with exactly that
\* text, and when paste_text finishes the clipboard holds its pre-call value.
C26_EndToEnd ==
    [][ /\ TickObserves =>
              (\A i \in 1..Len(results) : ShouldPaste(results[i]) => cur' = results[i])
        /\ DeliverStep =>
              /\ cur.id \in returned
              /\ cur.id \in Range(invoked)
              /\ last'.called /\ last'.text = cur.text
              /\ ppc' = "drain" => clipboard' = clipboard ]_vars

\* C26 (amended): a poll tick takes the oldest queued result, so a success
\* with text is observed once the results queued before it have been; it
\* belongs to a session whose audio stop_recording returned and _transcribe
\* sent on; paste_text is called with exactly that text; when paste_text
\* returns, the clipboard holds its pre-call value if the snapshot read and
\* the restoring write both worked.
C26_EndToEndIfClipboardWorks ==
    [][ /\ TickObserves => cur' = Head(results)
        /\ DeliverStep =>
              /\ cur.id \in returned
              /\ cur.id \in Range(invoked)
              /\ last'.called /\ last'.text = cur.text
              /\ (ppc' = "drain" /\ last'.snap = last'.pre /\ last'.restore = "ok")
                    => clipboard' = clipboard ]_vars

\* a session's text was pasted and the clipboard is back at its old content
C26_Witness ==
    /\ ppc = "drain"
    /\ cur.id \in returned
    /\ cur.id \in Range(invoked)
    /\ cur.text = "hello"
    /\ last.called /\ last.text = "hello"
    /\ last.key = "ok"
    /\ last.snap = OldClip /\ last.restore = "ok"
    /\ clipboard = OldClip

\* C27: every access to the shared state (recording flag, frame buffer,
\* in-flight flag, wait list) is made under the lock; in particular the
\* check-then-set of the in-flight flag in transcribe_async and its clearing
\* at task completion are atomic with respect to each other: between a
\* caller's check of the flag and its write no other thread changes it.
C27_FlagCheckThenSetAtomic ==
    \A t \in Threads : AtTa(t) => ta_seen[t] = transcribing

\* C28: whenever the lock is held, its holder is not in a transcription
\* call, a clipboard read or write, the paste keystroke, a settle or restore
\* sleep, or an audio stream open or stop: the holder is the thread calling
\* start_recording / stop_recording, inside one of their locked blocks and
\* not at a stream open or stop, or the audio thread inside callback.
C28_NoBlockingCallUnderLock ==
    /\ lock \in {"free", "hotkey", "audio"}
    /\ lock = "hotkey" => (hpc \in LockPoints /\ hpc \notin StreamPoints)

\* the calling thread holds the lock for stop_recording's second block, the
\* stream stopped and the stop cue played before it took the lock
C28_Witness ==
    /\ lock = "hotkey"
    /\ hpc = "collect"
    /\ frames # <<>>
    /\ stopCues > 0

\* C29: the callback appends a block only while the recording flag is true,
\* and once the buffered duration exceeds MAX_RECORDING_SECONDS it clears
\* the flag, so that a later callback of the stream, which keeps running,
\* appends nothing: the buffer never holds more than the ceiling's worth of
\* frames plus one block.
C29_FailsafeBoundsBuffer ==
    /\ [](FRAME_COUNT * Len(frames) <= MAX_RECORDING_SECONDS * SAMPLE_RATE + FRAME_COUNT)
    /\ [][ Len(frames') > Len(frames) =>
              /\ recording
              /\ Len(frames') = Len(frames) + 1
              /\ FRAME_COUNT * Len(frames') > MAX_RECORDING_SECONDS * SAMPLE_RATE
                    => ~recording' ]_vars

\* the failsafe has tripped: the flag is clear, the buffer holds the
\* ceiling's worth plus one block and the stream is still running
C29_Witness ==
    /\ ~recording
    /\ session \in failsafed
    /\ FRAME_COUNT * Len(frames) = MAX_RECORDING_SECONDS * SAMPLE_RATE + FRAME_COUNT
    /\ stream \in openStreams

\* no start_recording or stop_recording call is in progress
NoCallInProgress == hpc \in {"idle", "ta"}

\* C30: Idle owns no session: whenever the recording flag is false and no
\* start_recording / stop_recording call is in progress, the frame buffer
\* is empty.
C30_IdleOwnsNoFrames ==
    (~recording /\ NoCallInProgress) => frames = <<>>

\* a capture session starts collecting frames: start_recording sets the flag
SessionStarts == ~recording /\ recording'

\* C31: the level monitor is stateless across sessions: at the moment any
\* capture session starts collecting frames the monitor is in its initial
\* state (peak 0, no clipping flag, zero frames counted), whatever sessions
\* came before, those ended by the failsafe or by a failed start included.
C31_MonitorFreshAtSessionStart ==
    [][ SessionStarts =>
           /\ audio_monitor'.peak_level = 0
           /\ ~audio_monitor'.clipping_detected
           /\ audio_monitor'.num_frames = 0 ]_vars

\* a step that updates, reads or replaces the monitor
MonitorAccess == audio_monitor' # audio_monitor \/ quality' \notin {quality, "none"}

\* the step is callback's locked block, appending a block
CallbackAppends == recording /\ Len(frames') = Len(frames) + 1

\* C32: every access to the level monitor (update, get_report,
\* get_quality_assessment and its replacement by a fresh monitor) is made
\* while the recorder lock is held, so that no read or reset of the monitor
\* can interleave with an update from the audio callback.
C32_MonitorAccessUnderLock ==
    [][ MonitorAccess => (CallbackAppends \/ hpc \in LockPoints) ]_vars

\* C32 (amended): update is called in callback's locked block, while the
\* recording flag is true; get_report, get_quality_assessment and the
\* replacement are made by stop_recording between its two locked blocks,
\* without the lock, after the first block has cleared the flag: while
\* stop_recording is there the flag is false, so no update falls between
\* its read and its reset.
C32_MonitorAccessAfterFlagCleared ==
    /\ [](hpc = "stopstream" => ~recording)
    /\ [][ MonitorAccess =>
              \/ /\ CallbackAppends
                 /\ lock \in {"free", "audio"}
                 /\ hpc # "stopstream"
                 /\ audio_monitor' = update(audio_monitor, SpeechChunk)
                 /\ UNCHANGED <<report, quality>>
              \/ /\ hpc = "stopstream"
                 /\ lock # "hotkey"
                 /\ ~recording
                 /\ report' = get_report(audio_monitor)
                 /\ quality' = get_quality_assessment(audio_monitor)
                 /\ audio_monitor' = NewMonitor ]_vars

\* stop_recording is about to read the monitor, without the lock, while the
\* audio thread is inside callback's locked block
C32_Witness ==
    /\ platform = "windows"
    /\ hpc = "stopstream"
    /\ lock = "audio"
    /\ audio_monitor.num_frames > 0

\* an update call with a non-empty block on the same monitor
UpdateStep == audio_monitor'.num_frames > audio_monitor.num_frames

\* C33: within one monitor lifetime the clipping flag is sticky and
\* dominant: once an update has seen a block whose peak is at least 0.99,
\* every later get_quality_assessment answers clipped whatever the RMS of
\* that or any later block; the running peak never decreases, and the RMS
\* reported is that of the most recent block only.
C33_ClippingStickyPeakRunning ==
    /\ [](audio_monitor.clipping_detected =>
              get_quality_assessment(audio_monitor) = "clipped")
    /\ []((quality # "none" /\ report.clipping) => quality = "clipped")
    /\ [][ UpdateStep =>
              /\ audio_monitor.clipping_detected => audio_monitor'.clipping_detected
              /\ audio_monitor'.peak_level >= audio_monitor.peak_level
              /\ \E c \in MonitorChunks \cup {SpeechChunk} :
                    /\ c.n = audio_monitor'.num_frames - audio_monitor.num_frames
                    /\ c.peak >= ClipLevel => audio_monitor'.clipping_detected
                    /\ audio_monitor'.peak_level \in {c.peak, audio_monitor.peak_level}
                    /\ audio_monitor'.peak_level >= c.peak
                    /\ audio_monitor'.rms_db = c.rms_db ]_vars

\* a block touched 0.99, a quiet block followed, and the monitor asked after
\* it answers clipped with the quiet block's RMS
C33_Witness ==
    /\ audio_monitor.num_frames = 2
    /\ audio_monitor.clipping_detected
    /\ audio_monitor.peak_level = ClipLevel
    /\ audio_monitor.rms_db = -31
    /\ report = get_report(audio_monitor)
    /\ quality = "clipped"

\* C39: after any sequence of update calls on one monitor the clipping flag
\* is set if and only if the running peak is at least 0.99, and an update
\* with an empty block changes no field of the monitor.
C39_ClippingIffPeak ==
    /\ audio_monitor.clipping_detected <=> audio_monitor.peak_level >= ClipLevel
    /\ update(audio_monitor, EmptyChunk) = audio_monitor

\* a loud block that stays under 0.99 and a block that just reaches it
C39_Witness ==
    /\ audio_monitor.num_frames = 2
    /\ audio_monitor.peak_level = ClipLevel
    /\ audio_monitor.peak_db = 0
    /\ audio_monitor.clipping_detected
    /\ quality = "excellent"

C35_QueuedBufferHasDrainAhead ==
    pending # <<>> =>
        \/ transcribing
        \/ tasks # {}
        \/ results # <<>>
        \/ ppc \in {"deliver", "drain"}

\* C36: at most one audio input stream opened by the recorder is open at any
\* time, and none while the recorder is idle: start_recording never opens a
\* stream while an earlier one has not been stopped and closed (after a
\* failsafe or a failed start too), so the frames of one session come from
\* one stream.
C36_AtMostOneOpenStream ==
    /\ Cardinality(openStreams) <= 1
    /\ (~recording /\ hpc = "idle") => openStreams = {}

\* what each platform's press handler decides when a press event (a first
\* press or a key-repeat press) arrives in the current state
MacStartsCapture == ~IsActive
WinStartsCapture == ~recording_active /\ ~IsActive

\* C38: the macOS and the Windows lifecycle controllers are equivalent as
\* state machines: after every sequence of press (key repeat included),
\* release, audio-frame, failsafe and transcription-completion events both
\* make the same start-capture decision (the stop-capture and submit
\* decisions are the same code on both): in every state in which a press
\* event can be handled, the two handlers decide alike.
C38_SameStartDecision ==
    hpc = "idle" => (MacStartsCapture <=> WinStartsCapture)

\* C37: the system is deadlock-free with respect to the recorder lock: no
\* thread tries to take the non-reentrant lock while it holds it or waits for
\* another thread while holding it, so under fair scheduling every holder
\* gives the lock back and every thread that has reached a locked block
\* gets past it.
C37_LockAlwaysReleased ==
    /\ (lock = "hotkey") ~> (lock # "hotkey")
    /\ (lock = "audio") ~> (lock # "audio")
    /\ \A p \in LockPoints : (hpc = p) ~> (hpc # p)

\* the calling thread has reached stop_recording's first block while the
\* audio thread is inside callback's block with the flag set
C37_Witness ==
    /\ hpc = "stop"
    /\ lock = "audio"
    /\ recording
    /\ frames # <<>>

====
